---------------------------- MODULE Spec2Model ----------------------------
(***************************************************************************)
(* Lifecycle state machines of tgrid's WebServer, WorkerServer and          *)
(* WorkerConnector.                                                         *)
(*                                                                          *)
(* Two programs are modelled, one per behaviour: a node process holding one *)
(* WebServer (program = "web"), and a parent holding one WorkerConnector    *)
(* together with the worker it spawns, which holds one WorkerServer         *)
(* (program = "worker").  Every await of the source is a suspension point:  *)
(* the part of a method before the await and the part after it are          *)
(* separate actions.                                                        *)
(***************************************************************************)
EXTENDS Integers, Sequences, FiniteSets, TLC

VARIABLES
    program,        \* which of the two programs this behaviour runs
    watch,          \* the API calls whose outcome this behaviour records
    last,           \* the latest step, when a watched call: the call, how it ended
    web_state,      \* WebServer.state_
    web_server,     \* WebServer.server_: the listener object and its handlers
    web_protocol,   \* WebServer.protocol_: the ws.Server
    web_close,      \* pending close() calls, by the stage of _Close they wait in
    web_promise,    \* outcome of the promise of the latest accepted open()
    web_socket,     \* the latest upgraded client socket and what was made of it
    web_upgrades,   \* client upgrades the listener has emitted so far
    platform,       \* is_node() in the worker: "node" or "browser"
    con_state,      \* WorkerConnector.state_
    con_worker,     \* WorkerConnector.worker_: 0 (undefined) or the latest worker's id
    con_connector,  \* the connect promise connector_ resolves: 0 or its id
    con_promise,    \* outcome of each connect/compile promise, by worker id
    con_compiling,  \* compile() calls suspended in Compiler.compile()
    con_pending,    \* the connector's pending-call table: uids
    con_uid,        \* the connector's latest call uid
    con_joiners,    \* close() calls suspended in await join()
    con_joined,     \* close() promises that have resolved
    con_handling,   \* _Handle_close() calls suspended in await destructor()
    con_destructed, \* the session (worker id) destructor() last ran in
    orphan,         \* an earlier worker may still deliver messages
    orphan_posts,   \* messages of earlier workers delivered so far
    srv_alive,      \* the latest worker: "none", "running", "closed" or "crashed"
    srv_state,      \* WorkerServer.state_
    srv_provider,   \* WorkerServer.provider_: 0 (undefined) or a provider
    srv_header,     \* WorkerServer.header_: the Singleton and its value
    srv_onmessage,  \* the handler installed as channel.onmessage
    srv_opens,      \* open() calls suspended in await header_.get()
    srv_closes,     \* close() calls suspended in await destructor()
    srv_timers,     \* setTimeout callbacks of close() not yet run
    srv_pending,    \* the server's pending-call table: uids
    srv_uid,        \* the server's latest call uid
    srv_session,    \* open() calls accepted by the latest worker
    srv_destructed, \* the session destructor() last ran in
    c2s,            \* messages posted to the latest worker, not yet delivered
    s2c             \* messages posted by the latest worker, not yet delivered

sock_vars == <<web_socket, web_upgrades>>

web_vars == <<web_state, web_server, web_protocol, web_close, web_promise,
              sock_vars>>

con_vars == <<con_state, con_worker, con_connector, con_promise, con_compiling,
              con_pending, con_uid, con_joiners, con_joined, con_handling,
              con_destructed>>

srv_vars == <<srv_alive, srv_state, srv_provider, srv_header, srv_onmessage,
              srv_opens, srv_closes, srv_timers, srv_pending, srv_uid,
              srv_session, srv_destructed>>

net_vars == <<orphan, orphan_posts, c2s, s2c>>

worker_vars == <<platform, con_vars, srv_vars, net_vars>>

vars == <<program, watch, last, web_vars, worker_vars>>

(***************************************************************************)
(* Bounds of the model.                                                     *)
(***************************************************************************)
\* accepted WebServer.open() calls per behaviour
MaxOpens == 3
\* workers one connector spawns per behaviour
MaxWorkers == 2
\* calls each side registers per behaviour
MaxCalls == 1
\* messages in flight in one direction for an API call to post one more
MaxQueue == 2
\* calls of one method suspended at the same await
MaxSuspended == 1
\* messages of earlier workers delivered after a later worker was spawned
MaxOrphanPosts == 1
\* open() calls the latest worker accepts
MaxSessions == 2
\* client upgrades per behaviour
MaxSockets == 1
\* frames one client socket delivers
MaxFrames == 2

(***************************************************************************)
(* IServer.State / IConnector.State and their order.                        *)
(***************************************************************************)
State == {"NONE", "OPENING", "OPEN", "CLOSING", "CLOSED"}

Rank(s) ==
    CASE s = "NONE" -> 0
      [] s = "OPENING" -> 1
      [] s = "CONNECTING" -> 1
      [] s = "OPEN" -> 2
      [] s = "CLOSING" -> 3
      [] s = "CLOSED" -> 4

\* last: no call recorded.
NoCall == [who |-> "none", op |-> "none", result |-> "none"]

\* last after a step: the call and how it ended when the call is one of the
\* watched ones, NoCall after any other step.
Outcome(who, op, result) ==
    IF op \in watch THEN [who |-> who, op |-> op, result |-> result] ELSE NoCall

(***************************************************************************)
(* WebServer                                                                *)
(***************************************************************************)
\* http.createServer(): a listener that is not bound and has no handlers.
\* gen tells the listener objects apart; upgrade, opening are the numbers of
\* "upgrade" handlers and of _Open's "listening"/"error" handler pairs.
NewListener(gen) ==
    [gen |-> gen, status |-> "idle", upgrade |-> 0, opening |-> 0]

\* The error open() throws in the given state, "none" when it goes on.
WebOpenError(s) ==
    CASE s = "OPEN" -> "DomainError"
      [] s = "OPENING" -> "DomainError"
      [] s = "CLOSING" -> "RuntimeError"
      [] OTHER -> "none"

\* WebReopen without the re-open branch: open() keeps the listener it has.
WebReopen_KeepsListener(s, server) == server

\* WebServer.open(): from CLOSED a fresh listener replaces server_.
WebReopen(s, server) ==
    IF s = "CLOSED" THEN NewListener(server.gen + 1) ELSE server

\* WebServer.open(port, handler) with _Open(port) up to server_.listen(port).
\* listen() on a listener that is already bound or binding throws inside the
\* promise's executor, which rejects the promise and leaves state_ OPENING.
WebOpen ==
    /\ program = "web"
    /\ IF WebOpenError(web_state) # "none"
       THEN /\ last' = Outcome("web", "open", WebOpenError(web_state))
            /\ UNCHANGED web_vars
       ELSE /\ web_state = "CLOSED" => web_server.gen < MaxOpens
            /\ web_server.upgrade < MaxOpens
            /\ LET server == WebReopen(web_state, web_server)
                   bound  == server.status \in {"binding", "listening"}
               IN  /\ web_state' = "OPENING"
                   /\ web_server' =
                        [server EXCEPT !.upgrade = @ + 1,
                                       !.opening = @ + 1,
                                       !.status = IF bound THEN @ ELSE "binding"]
                   /\ web_promise' = IF bound THEN "rejected" ELSE "pending"
                   /\ last' = Outcome("web", "open",
                                   IF bound THEN "ListenError" ELSE "pending")
            /\ UNCHANGED <<web_protocol, web_close, sock_vars>>
    /\ UNCHANGED <<program, watch, worker_vars>>

\* The "listening" handlers of _Open: state_ = OPEN, resolve().
WebOnListening ==
    /\ program = "web"
    /\ web_server.status = "binding"
    /\ web_server' = [web_server EXCEPT !.status = "listening"]
    /\ web_state' = "OPEN"
    /\ web_promise' = IF web_promise = "pending" THEN "resolved" ELSE web_promise
    /\ last' = Outcome("web", "listening", "ok")
    /\ UNCHANGED <<program, watch, worker_vars, web_protocol, web_close, sock_vars>>

\* The state the "error" handlers of _Open leave: every open() accepted on
\* this listener registered one, and none is ever removed.
WebErrorState(s, server) ==
    IF server.opening > 0 THEN "NONE" ELSE s

\* The listener emits "error": a failed bind, or a failure while listening.
WebOnError ==
    /\ program = "web"
    /\ web_server.status \in {"binding", "listening"}
    /\ web_state' = WebErrorState(web_state, web_server)
    /\ web_server' =
         [web_server EXCEPT !.status = IF @ = "binding" THEN "idle" ELSE @]
    /\ web_promise' = IF web_promise = "pending" THEN "rejected" ELSE web_promise
    /\ last' = Outcome("web", "error", "ok")
    /\ UNCHANGED <<program, watch, worker_vars, web_protocol, web_close, sock_vars>>

\* WebCloseError with the test written as "not yet opened".
WebCloseError_OnlyBeforeOpen(s) ==
    IF Rank(s) < Rank("OPEN") THEN "DomainError" ELSE "none"

\* The error close() throws in the given state, "none" when it goes on.
WebCloseError(s) ==
    IF s # "OPEN" THEN "DomainError" ELSE "none"

\* WebServer.close() up to the await: state_ = CLOSING, and _Close() calls
\* protocol_.close(cb).
WebClose ==
    /\ program = "web"
    /\ IF WebCloseError(web_state) # "none"
       THEN /\ last' = Outcome("web", "close", WebCloseError(web_state))
            /\ UNCHANGED web_vars
       ELSE /\ web_state' = "CLOSING"
            /\ web_protocol' = "closing"
            /\ web_close' = [web_close EXCEPT !.protocol = @ + 1]
            /\ last' = Outcome("web", "close", "pending")
            /\ UNCHANGED <<web_server, web_promise, sock_vars>>
    /\ UNCHANGED <<program, watch, worker_vars>>

\* _Close: the callback of protocol_.close() calls server_.close(cb), which
\* unbinds the listener.
WebProtocolClosed ==
    /\ program = "web"
    /\ web_close.protocol > 0
    /\ web_protocol' = "closed"
    /\ web_close' = [web_close EXCEPT !.protocol = @ - 1, !.server = @ + 1]
    /\ web_server' = [web_server EXCEPT !.status = "closing"]
    /\ last' = Outcome("web", "protocolClosed", "ok")
    /\ UNCHANGED <<program, watch, worker_vars, web_state, web_promise, sock_vars>>

\* _Close: the listener emits "close" once it is unbound, and the callbacks
\* of server_.close() resolve their promises.
WebServerClosed ==
    /\ program = "web"
    /\ web_close.server > 0
    /\ web_server.status = "closing"
    /\ web_server' = [web_server EXCEPT !.status = "closed"]
    /\ web_close' = [web_close EXCEPT !.server = 0,
                                      !.resolved = @ + web_close.server]
    /\ last' = Outcome("web", "serverClosed", "ok")
    /\ UNCHANGED <<program, watch, worker_vars, web_state, web_protocol,
                   web_promise, sock_vars>>

\* The state close() ends in.
WebClosedState == "CLOSED"

\* WebServer.close() after the await: state_ = CLOSED.
WebCloseResume ==
    /\ program = "web"
    /\ web_close.resolved > 0
    /\ web_state' = WebClosedState
    /\ web_close' = [web_close EXCEPT !.resolved = @ - 1]
    /\ last' = Outcome("web", "closed", "ok")
    /\ UNCHANGED <<program, watch, worker_vars, web_server, web_protocol,
                   web_promise, sock_vars>>

\* No client socket has been upgraded yet.  ws: the WebSocket objects made
\* for the socket whose once("message") handler still waits; frames: the
\* frames received; first: the first frame; acceptors: the Acceptors
\* created; handled: the calls of the acceptance handler; running: those of
\* them that have not returned; closed: webSocket.close() was called;
\* open: the server was OPEN when the socket was upgraded.
NoSocket ==
    [open |-> FALSE, ws |-> 0, frames |-> 0, first |-> "none", acceptors |-> 0,
     handled |-> 0, running |-> 0, closed |-> FALSE]

\* The first frames a client can send: a text or a binary frame, holding a
\* JSON header envelope or bytes that are no JSON.
FirstFrames ==
    {"text:envelope", "text:garbage", "binary:envelope", "binary:garbage"}

\* typeof data === "string"
IsText(frame) == frame \in {"text:envelope", "text:garbage"}

\* JSON.parse(data as string) returns: a Buffer is converted to its text.
Parses(frame) == frame \in {"text:envelope", "binary:envelope"}

\* The WebSocket objects a client upgrade ends with: every "upgrade" handler
\* on the listener calls protocol_.handleUpgrade() with the same socket; a
\* second call for one socket either throws or makes another WebSocket.
UpgradedSockets(server) == {1, server.upgrade}

\* protocol_.handleUpgrade() completes: always on a running ws.Server; once
\* protocol_.close() was called it does or does not.
HandlesUpgrade(protocol) ==
    IF protocol = "running" THEN {TRUE} ELSE {TRUE, FALSE}

\* The listener emits "upgrade" for a client: the handlers open() registered
\* run protocol_.handleUpgrade(), whose callback registers once("message").
WebUpgrade(n, ok) ==
    /\ program = "web"
    /\ web_server.status = "listening"
    /\ web_server.upgrade > 0
    /\ web_upgrades < MaxSockets
    /\ web_socket.running = 0
    /\ n \in UpgradedSockets(web_server)
    /\ ok \in HandlesUpgrade(web_protocol)
    /\ web_upgrades' = web_upgrades + 1
    /\ web_socket' = [NoSocket EXCEPT !.open = (web_state = "OPEN"),
                                      !.ws = IF ok THEN n ELSE 0]
    /\ last' = Outcome("web", "upgrade", IF ok THEN "ok" ELSE "refused")
    /\ UNCHANGED <<program, watch, worker_vars, web_state, web_server,
                   web_protocol, web_close, web_promise>>

\* The once("message") handler up to await handler(acceptor): a frame that
\* is no string closes the socket and goes on; the parsed wrapper's header
\* makes the Acceptor the handler is called with; a parse error closes the
\* socket.
FirstMessage(socket, frame) ==
    [socket EXCEPT
        !.ws = 0,
        !.frames = 1,
        !.first = frame,
        !.closed = @ \/ ~IsText(frame) \/ ~Parses(frame),
        !.acceptors = IF Parses(frame) THEN socket.ws ELSE 0,
        !.handled = IF Parses(frame) THEN socket.ws ELSE 0,
        !.running = IF Parses(frame) THEN socket.ws ELSE 0]

\* The first frame of the socket arrives.
WebFirstFrame(frame) ==
    /\ program = "web"
    /\ web_socket.ws > 0
    /\ web_socket' = FirstMessage(web_socket, frame)
    /\ last' = Outcome("web", "frame", frame)
    /\ UNCHANGED <<program, watch, worker_vars, web_state, web_server,
                   web_protocol, web_close, web_promise, web_upgrades>>

\* A later frame of the socket arrives: no handler of the server is left on
\* the WebSocket.
WebLaterFrame ==
    /\ program = "web"
    /\ web_socket.frames > 0
    /\ web_socket.frames < MaxFrames
    /\ web_socket' = [web_socket EXCEPT !.frames = @ + 1]
    /\ last' = Outcome("web", "frame", "later")
    /\ UNCHANGED <<program, watch, worker_vars, web_state, web_server,
                   web_protocol, web_close, web_promise, web_upgrades>>

\* await handler(acceptor) ends: when the handler threw, the catch block
\* closes the socket.
WebHandlerReturns(throws) ==
    /\ program = "web"
    /\ web_socket.running > 0
    /\ web_socket' = [web_socket EXCEPT !.running = @ - 1,
                                        !.closed = @ \/ throws]
    /\ last' = Outcome("web", "handler", IF throws THEN "threw" ELSE "ok")
    /\ UNCHANGED <<program, watch, worker_vars, web_state, web_server,
                   web_protocol, web_close, web_promise, web_upgrades>>

WebNext ==
    \/ WebOpen
    \/ WebOnListening
    \/ WebOnError
    \/ WebClose
    \/ WebProtocolClosed
    \/ WebServerClosed
    \/ WebCloseResume
    \/ \E n \in 1..MaxOpens, ok \in BOOLEAN : WebUpgrade(n, ok)
    \/ \E frame \in FirstFrames : WebFirstFrame(frame)
    \/ WebLaterFrame
    \/ \E throws \in BOOLEAN : WebHandlerReturns(throws)

(***************************************************************************)
(* Messages of the worker channel                                           *)
(***************************************************************************)
\* A state sentinel posted as a message: OPENING, OPEN or CLOSING.
Sentinel(k) == [kind |-> k, uid |-> 0]

\* The header envelope { header: H } the parent answers OPENING with.
HeaderEnvelope == [kind |-> "HEADER", uid |-> 0]

\* An encoded Invoke: a Call ("call") or a Return ("return") of that uid.
Frame(k, u) == [kind |-> k, uid |-> u]

Uids == 1..MaxCalls

Messages ==
    {Sentinel(k) : k \in {"OPENING", "OPEN", "CLOSING"}}
        \cup {HeaderEnvelope}
        \cup {Frame(k, u) : k \in {"call", "return"}, u \in Uids}

\* Every open() call is given a provider of its own.
FreshProviders == {srv_session + 1}

(***************************************************************************)
(* Communicator: the pending-call table, destructor() and replyData()       *)
(***************************************************************************)
\* failAll: the table drained, every entry rejected.
FailAll(pending) == {}

\* complete: the entry of a Return's uid removed; an unknown uid is dropped.
Complete(pending, u) == pending \ {u}

\* A Call is registered only through the ready gate, and never again in a
\* session destructor() has run in.
CanRegister(error, destructed, session) ==
    error = "none" /\ destructed # session

\* IConnector.inspect: null in OPEN, an error of the state's own otherwise.
ConInspectReady(s) ==
    CASE s = "OPEN" -> "none"
      [] s = "NONE" -> "NotReady:NONE"
      [] s = "CONNECTING" -> "NotReady:CONNECTING"
      [] s = "CLOSING" -> "NotReady:CLOSING"
      [] s = "CLOSED" -> "NotReady:CLOSED"

\* inspectReady with one error for a server that is closing or closed.
SrvInspectReady_OneClosingError(s) ==
    CASE s = "OPEN" -> "none"
      [] s = "NONE" -> "DomainError:not opened yet"
      [] s = "OPENING" -> "DomainError:on opening"
      [] OTHER -> "RuntimeError:on closing"

\* WorkerServer.inspectReady.
SrvInspectReady(s) ==
    CASE s = "OPEN" -> "none"
      [] s = "NONE" -> "DomainError:not opened yet"
      [] s = "OPENING" -> "DomainError:on opening"
      [] s = "CLOSING" -> "RuntimeError:on closing"
      [] s = "CLOSED" -> "RuntimeError:has been closed"
      [] OTHER -> "RuntimeError:unknown"

(***************************************************************************)
(* WorkerConnector                                                          *)
(***************************************************************************)
\* The latest worker runs and its channel is open.
Alive == srv_alive = "running"

\* postMessage on worker_: lost when the worker has gone.
ToWorker(q, m) == IF Alive THEN Append(q, m) ELSE q

\* _Test_connection: the error it throws, "none" when it returns.
TestConnection(worker, s) ==
    IF worker # 0 /\ s # "CLOSED"
    THEN CASE s = "CONNECTING" -> "DomainError:on connecting"
           [] s = "OPEN" -> "DomainError:already connected"
           [] OTHER -> "DomainError:closing"
    ELSE "none"

\* The state _Connect leaves when Compiler.execute() throws.
ConnectFailedState == "NONE"

\* _Connect(jsFile, headers).  When Compiler.execute() throws, the catch
\* block takes the state back and rejects.  Otherwise a new worker starts,
\* with a WorkerServer as constructed; a worker spawned earlier that still
\* runs, or whose messages are still in flight, stays bound to
\* _Handle_message.
Connect(op, throws) ==
    IF throws
    THEN /\ con_state' = ConnectFailedState
         /\ last' = Outcome("connector", op, "rejected")
         /\ UNCHANGED <<con_worker, con_connector, con_promise, con_pending,
                        con_uid, con_joiners, con_joined, con_handling,
                        con_destructed, srv_vars, net_vars>>
    ELSE /\ con_worker < MaxWorkers
         /\ con_state' = "CONNECTING"
         /\ con_worker' = con_worker + 1
         /\ con_connector' = con_worker + 1
         /\ con_promise' = Append(con_promise, "pending")
         /\ con_joined' = FALSE
         /\ orphan' = (orphan \/ Alive \/ s2c # <<>>)
         /\ UNCHANGED orphan_posts
         /\ srv_alive' = "running"
         /\ srv_state' = "NONE"
         /\ srv_provider' = 0
         /\ srv_header' = [status |-> "none", value |-> "none"]
         /\ srv_onmessage' = "none"
         /\ srv_opens' = 0
         /\ srv_closes' = 0
         /\ srv_timers' = 0
         /\ srv_pending' = {}
         /\ srv_uid' = 0
         /\ srv_session' = 0
         /\ srv_destructed' = 0
         /\ c2s' = <<>>
         /\ s2c' = <<>>
         /\ last' = Outcome("connector", op, "pending")
         /\ UNCHANGED <<con_pending, con_uid, con_joiners, con_handling,
                        con_destructed>>

\* WorkerConnector.connect(jsFile, headers)
ConConnect(throws) ==
    /\ program = "worker"
    /\ IF TestConnection(con_worker, con_state) # "none"
       THEN /\ last' = Outcome("connector", "connect",
                            TestConnection(con_worker, con_state))
            /\ UNCHANGED <<con_vars, srv_vars, net_vars>>
       ELSE /\ Connect("connect", throws)
            /\ UNCHANGED con_compiling
    /\ UNCHANGED <<program, watch, platform, web_vars>>

\* WorkerConnector.compile(content, headers) up to await Compiler.compile().
ConCompile ==
    /\ program = "worker"
    /\ IF TestConnection(con_worker, con_state) # "none"
       THEN /\ last' = Outcome("connector", "compile",
                            TestConnection(con_worker, con_state))
            /\ UNCHANGED con_compiling
       ELSE /\ con_compiling < MaxSuspended
            /\ con_compiling' = con_compiling + 1
            /\ last' = Outcome("connector", "compile", "pending")
    /\ UNCHANGED <<con_state, con_worker, con_connector, con_promise,
                   con_pending, con_uid, con_joiners, con_joined,
                   con_handling, con_destructed>>
    /\ UNCHANGED <<program, watch, platform, web_vars, srv_vars, net_vars>>

\* WorkerConnector.compile() after the await: _Connect(path, headers).
ConCompileResume(throws) ==
    /\ program = "worker"
    /\ con_compiling > 0
    /\ con_compiling' = con_compiling - 1
    /\ Connect("compiled", throws)
    /\ UNCHANGED <<program, watch, platform, web_vars>>

\* WorkerConnector.close(): the gate, join(), CLOSING posted to the worker.
ConClose ==
    /\ program = "worker"
    /\ IF ConInspectReady(con_state) # "none"
       THEN /\ last' = Outcome("connector", "close", ConInspectReady(con_state))
            /\ UNCHANGED <<con_vars, c2s>>
       ELSE /\ con_joiners < MaxSuspended
            /\ Len(c2s) < MaxQueue
            /\ con_state' = "CLOSING"
            /\ con_joiners' = con_joiners + 1
            /\ con_joined' = FALSE
            /\ c2s' = ToWorker(c2s, Sentinel("CLOSING"))
            /\ last' = Outcome("connector", "close", "pending")
            /\ UNCHANGED <<con_worker, con_connector, con_promise,
                           con_compiling, con_pending, con_uid, con_handling,
                           con_destructed>>
    /\ UNCHANGED <<program, watch, platform, web_vars, srv_vars, orphan, orphan_posts, s2c>>

\* A call through the connector's driver: registered in the pending-call
\* table and sent when the gate allows it, rejected otherwise.
ConCallRemote ==
    /\ program = "worker"
    /\ IF CanRegister(ConInspectReady(con_state), con_destructed, con_worker)
       THEN /\ con_uid < MaxCalls
            /\ Len(c2s) < MaxQueue
            /\ con_uid' = con_uid + 1
            /\ con_pending' = con_pending \cup {con_uid + 1}
            /\ c2s' = ToWorker(c2s, Frame("call", con_uid + 1))
            /\ last' = Outcome("connector", "call", "pending")
       ELSE /\ last' = Outcome("connector", "call", "rejected")
            /\ UNCHANGED <<con_uid, con_pending, c2s>>
    /\ UNCHANGED <<con_state, con_worker, con_connector, con_promise,
                   con_compiling, con_joiners, con_joined, con_handling,
                   con_destructed>>
    /\ UNCHANGED <<program, watch, platform, web_vars, srv_vars, orphan, orphan_posts, s2c>>

\* The connect promise connector_ holds, resolved.
Resolved(promises, id) ==
    [i \in DOMAIN promises |->
        IF i = id /\ promises[i] = "pending" THEN "resolved" ELSE promises[i]]

\* What the parent posts to the worker on a message: the Return of a Call,
\* the header envelope on the OPENING sentinel.
Reply(q, m) ==
    CASE m.kind = "call" -> ToWorker(q, Frame("return", m.uid))
      [] m.kind = "OPENING" -> ToWorker(q, HeaderEnvelope)
      [] OTHER -> q

\* What _Handle_message does with a message: OPEN and CLOSING are control,
\* anything else is decoded and given to replyData(); the OPENING sentinel
\* belongs to the handshake of the parent.
ConHandler(m) ==
    CASE m.kind \in {"OPEN", "CLOSING"} -> "control"
      [] m.kind = "OPENING" -> "handshake"
      [] OTHER -> "replyData"

\* The state the OPEN sentinel leaves the connector in.
ConOpenedState(s) == "OPEN"

\* _Handle_message(evt) for a message of a worker of this connector, with
\* _Handle_close() up to its await.  A Call is answered with its Return; the
\* OPENING sentinel is answered with the header envelope.
ConHandleMessage(m) ==
    /\ m.kind = "CLOSING" => con_handling < MaxSuspended
    /\ con_state' = IF m.kind = "OPEN" THEN ConOpenedState(con_state)
                    ELSE con_state
    /\ con_promise' = IF m.kind = "OPEN"
                      THEN Resolved(con_promise, con_connector)
                      ELSE con_promise
    /\ con_pending' =
         CASE m.kind = "CLOSING" -> FailAll(con_pending)
           [] m.kind = "return" -> Complete(con_pending, m.uid)
           [] OTHER -> con_pending
    /\ con_joiners' = IF m.kind = "CLOSING" THEN 0 ELSE con_joiners
    /\ con_joined' = IF m.kind = "CLOSING" /\ con_joiners > 0 THEN TRUE
                     ELSE con_joined
    /\ con_handling' = IF m.kind = "CLOSING" THEN con_handling + 1
                       ELSE con_handling
    /\ con_destructed' = IF m.kind = "CLOSING" THEN con_worker
                         ELSE con_destructed
    /\ c2s' = Reply(c2s, m)
    /\ last' = Outcome("connector", ConHandler(m), m.kind)
    /\ UNCHANGED <<con_worker, con_connector, con_compiling, con_uid>>

\* A message of the latest worker is delivered.
ConReceive ==
    /\ program = "worker"
    /\ s2c # <<>>
    /\ ConHandleMessage(Head(s2c))
    /\ s2c' = Tail(s2c)
    /\ UNCHANGED <<program, watch, platform, web_vars, srv_vars, orphan, orphan_posts>>

\* A message of an earlier worker is delivered.
OrphanPost(m) ==
    /\ program = "worker"
    /\ orphan
    /\ orphan_posts < MaxOrphanPosts
    /\ orphan_posts' = orphan_posts + 1
    /\ ConHandleMessage(m)
    /\ UNCHANGED <<program, watch, platform, web_vars, srv_vars, orphan, s2c>>

\* _Handle_close() after await destructor(): state_ = CLOSED.
ConHandleCloseResume ==
    /\ program = "worker"
    /\ con_handling > 0
    /\ con_handling' = con_handling - 1
    /\ con_state' = "CLOSED"
    /\ last' = Outcome("connector", "closed", "ok")
    /\ UNCHANGED <<con_worker, con_connector, con_promise, con_compiling,
                   con_pending, con_uid, con_joiners, con_joined,
                   con_destructed>>
    /\ UNCHANGED <<program, watch, platform, web_vars, srv_vars, net_vars>>

(***************************************************************************)
(* WorkerServer (the latest worker)                                         *)
(***************************************************************************)
\* The worker has gone, closed by its own channel.close() or crashed: nothing
\* of it runs any more, and what was posted to it is lost.
Gone(how) ==
    /\ srv_alive' = how
    /\ srv_opens' = 0
    /\ srv_closes' = 0
    /\ srv_timers' = 0
    /\ c2s' = <<>>

\* A header_ whose closure runs on every get().
HeaderStarted_Never == FALSE

\* header_.get() has started the handshake: the Singleton's closure runs on
\* the first get() only.
HeaderStarted == srv_header.status # "none"

\* header_.get(): the first call posts OPENING and _Handshake() installs its
\* once() handler; every call returns the same promise.
HeaderGet ==
    IF HeaderStarted
    THEN UNCHANGED <<srv_header, srv_onmessage, s2c>>
    ELSE /\ srv_header' = [status |-> "waiting", value |-> "none"]
         /\ srv_onmessage' = "handshake"
         /\ s2c' = Append(s2c, Sentinel("OPENING"))

\* The error open() throws, "none" when it goes on: the state is tested in
\* the node branch only.
SrvOpenError(env, s) ==
    IF env = "browser" THEN "none"
    ELSE IF s # "NONE" THEN "DomainError:has been opened" ELSE "none"

\* WorkerServer.open(provider) up to await header_.get().
SrvOpen(provider) ==
    /\ program = "worker"
    /\ Alive
    /\ IF SrvOpenError(platform, srv_state) # "none"
       THEN /\ last' = Outcome("server", "open", SrvOpenError(platform, srv_state))
            /\ UNCHANGED <<srv_state, srv_provider, srv_opens, srv_session,
                           srv_header, srv_onmessage, s2c>>
       ELSE /\ srv_opens < MaxSuspended
            /\ srv_session < MaxSessions
            /\ srv_state' = "OPENING"
            /\ srv_provider' = provider
            /\ srv_opens' = srv_opens + 1
            /\ srv_session' = srv_session + 1
            /\ HeaderGet
            /\ last' = Outcome("server", "open", "pending")
    /\ UNCHANGED <<srv_alive, srv_closes, srv_timers, srv_pending, srv_uid,
                   srv_destructed>>
    /\ UNCHANGED <<program, watch, platform, web_vars, con_vars, orphan, orphan_posts, c2s>>

\* The state open() ends in.
SrvOpenedState == "OPEN"

\* WorkerServer.open() after the header has arrived: _Handle_message is
\* installed, OPEN is posted, state_ = OPEN.
SrvOpenResume ==
    /\ program = "worker"
    /\ Alive
    /\ srv_opens > 0
    /\ srv_header.status = "done"
    /\ srv_opens' = srv_opens - 1
    /\ srv_onmessage' = "handle"
    /\ s2c' = Append(s2c, Sentinel("OPEN"))
    /\ srv_state' = SrvOpenedState
    /\ last' = Outcome("server", "opened", "ok")
    /\ UNCHANGED <<srv_alive, srv_provider, srv_header, srv_closes, srv_timers,
                   srv_pending, srv_uid, srv_session, srv_destructed>>
    /\ UNCHANGED <<program, watch, platform, web_vars, con_vars, orphan, orphan_posts, c2s>>

\* WorkerServer.getHeader()
SrvGetHeader ==
    /\ program = "worker"
    /\ Alive
    /\ HeaderGet
    /\ last' = Outcome("server", "getHeader", "pending")
    /\ UNCHANGED <<srv_alive, srv_state, srv_provider, srv_opens, srv_closes,
                   srv_timers, srv_pending, srv_uid, srv_session,
                   srv_destructed>>
    /\ UNCHANGED <<program, watch, platform, web_vars, con_vars, orphan, orphan_posts, c2s>>

\* WorkerServer.close() up to await destructor(): the gate, state_ =
\* CLOSING, the pending calls failed.  who tells the caller: the worker's
\* own code, or _Handle_message on a CLOSING sentinel.
SrvCloseBody(who) ==
    IF SrvInspectReady(srv_state) # "none"
    THEN /\ last' = Outcome("server", who, SrvInspectReady(srv_state))
         /\ UNCHANGED <<srv_state, srv_pending, srv_destructed, srv_closes>>
    ELSE /\ srv_closes < MaxSuspended
         /\ srv_state' = "CLOSING"
         /\ srv_pending' = FailAll(srv_pending)
         /\ srv_destructed' = srv_session
         /\ srv_closes' = srv_closes + 1
         /\ last' = Outcome("server", who, "pending")

SrvClose ==
    /\ program = "worker"
    /\ Alive
    /\ SrvCloseBody("close")
    /\ UNCHANGED <<srv_alive, srv_provider, srv_header, srv_onmessage,
                   srv_opens, srv_timers, srv_uid, srv_session>>
    /\ UNCHANGED <<program, watch, platform, web_vars, con_vars, net_vars>>

\* WorkerServer.close() after the await: the teardown is left to a timer
\* and state_ = CLOSED.
SrvCloseResume ==
    /\ program = "worker"
    /\ Alive
    /\ srv_closes > 0
    /\ srv_closes' = srv_closes - 1
    /\ srv_timers' = srv_timers + 1
    /\ srv_state' = "CLOSED"
    /\ last' = Outcome("server", "closed", "ok")
    /\ UNCHANGED <<srv_alive, srv_provider, srv_header, srv_onmessage,
                   srv_opens, srv_pending, srv_uid, srv_session,
                   srv_destructed>>
    /\ UNCHANGED <<program, watch, platform, web_vars, con_vars, net_vars>>

\* The timer of close(): CLOSING is posted and the channel closed, which
\* ends the worker.
SrvTimer ==
    /\ program = "worker"
    /\ Alive
    /\ srv_timers > 0
    /\ s2c' = Append(s2c, Sentinel("CLOSING"))
    /\ Gone("closed")
    /\ last' = Outcome("server", "teardown", "ok")
    /\ UNCHANGED <<srv_state, srv_provider, srv_header, srv_onmessage,
                   srv_pending, srv_uid, srv_session, srv_destructed>>
    /\ UNCHANGED <<program, watch, platform, web_vars, con_vars, orphan, orphan_posts>>

\* A call through the server's driver.
SrvCallRemote ==
    /\ program = "worker"
    /\ Alive
    /\ IF CanRegister(SrvInspectReady(srv_state), srv_destructed, srv_session)
       THEN /\ srv_uid < MaxCalls
            /\ Len(s2c) < MaxQueue
            /\ srv_uid' = srv_uid + 1
            /\ srv_pending' = srv_pending \cup {srv_uid + 1}
            /\ s2c' = Append(s2c, Frame("call", srv_uid + 1))
            /\ last' = Outcome("server", "call", "pending")
       ELSE /\ last' = Outcome("server", "call", "rejected")
            /\ UNCHANGED <<srv_uid, srv_pending, s2c>>
    /\ UNCHANGED <<srv_alive, srv_state, srv_provider, srv_header,
                   srv_onmessage, srv_opens, srv_closes, srv_timers,
                   srv_session, srv_destructed>>
    /\ UNCHANGED <<program, watch, platform, web_vars, con_vars, orphan, orphan_posts, c2s>>

\* wrapper.header of JSON.parse(data): the envelope's header, undefined for
\* any other message.
ParsedHeader(m) == IF m.kind = "HEADER" THEN "H" ELSE "undefined"

\* The once() handler of _Handshake(): the first message, whatever it is,
\* resolves the handshake and is decoded as the header envelope.
SrvHandshakeMessage(m) ==
    /\ srv_header' = [status |-> "done", value |-> ParsedHeader(m)]
    /\ srv_onmessage' = "spent"
    /\ last' = Outcome("server", "handshake", m.kind)
    /\ UNCHANGED <<srv_state, srv_pending, srv_destructed, srv_closes, s2c>>

\* _Handle_message(evt): CLOSING runs close(), anything else goes to
\* replyData(), which answers a Call and completes a Return.
SrvHandleMessage(m) ==
    IF m.kind = "CLOSING"
    THEN /\ SrvCloseBody("message")
         /\ UNCHANGED <<srv_header, srv_onmessage, s2c>>
    ELSE /\ srv_pending' = IF m.kind = "return"
                           THEN Complete(srv_pending, m.uid)
                           ELSE srv_pending
         /\ s2c' = IF m.kind = "call"
                   THEN Append(s2c, Frame("return", m.uid))
                   ELSE s2c
         /\ last' = Outcome("server", "replyData", m.kind)
         /\ UNCHANGED <<srv_state, srv_destructed, srv_closes, srv_header,
                        srv_onmessage>>

\* A message posted to the worker is delivered to channel.onmessage.
SrvReceive ==
    /\ program = "worker"
    /\ Alive
    /\ c2s # <<>>
    /\ c2s' = Tail(c2s)
    /\ CASE srv_onmessage = "handshake" -> SrvHandshakeMessage(Head(c2s))
         [] srv_onmessage = "handle" -> SrvHandleMessage(Head(c2s))
         [] OTHER ->
              /\ last' = Outcome("server", "dropped", Head(c2s).kind)
              /\ UNCHANGED <<srv_state, srv_pending, srv_destructed,
                             srv_closes, srv_header, srv_onmessage, s2c>>
    /\ UNCHANGED <<srv_alive, srv_provider, srv_opens, srv_timers, srv_uid,
                   srv_session>>
    /\ UNCHANGED <<program, watch, platform, web_vars, con_vars, orphan, orphan_posts>>

\* The worker terminates or fails: the connector registers no handler for
\* it, so nothing of the connector changes.
WorkerCrash ==
    /\ program = "worker"
    /\ Alive
    /\ Gone("crashed")
    /\ last' = Outcome("worker", "crash", "ok")
    /\ UNCHANGED <<srv_state, srv_provider, srv_header, srv_onmessage,
                   srv_pending, srv_uid, srv_session, srv_destructed>>
    /\ UNCHANGED <<program, watch, platform, web_vars, con_vars, orphan, orphan_posts, s2c>>

WorkerInit ==
    /\ platform \in {"node", "browser"}
    /\ con_state = "NONE"
    /\ con_worker = 0
    /\ con_connector = 0
    /\ con_promise = <<>>
    /\ con_compiling = 0
    /\ con_pending = {}
    /\ con_uid = 0
    /\ con_joiners = 0
    /\ con_joined = FALSE
    /\ con_handling = 0
    /\ con_destructed = 0
    /\ orphan = FALSE
    /\ orphan_posts = 0
    /\ srv_alive = "none"
    /\ srv_state = "NONE"
    /\ srv_provider = 0
    /\ srv_header = [status |-> "none", value |-> "none"]
    /\ srv_onmessage = "none"
    /\ srv_opens = 0
    /\ srv_closes = 0
    /\ srv_timers = 0
    /\ srv_pending = {}
    /\ srv_uid = 0
    /\ srv_session = 0
    /\ srv_destructed = 0
    /\ c2s = <<>>
    /\ s2c = <<>>

WorkerNext ==
    \/ \E throws \in BOOLEAN : ConConnect(throws)
    \/ ConCompile
    \/ \E throws \in BOOLEAN : ConCompileResume(throws)
    \/ ConClose
    \/ ConCallRemote
    \/ ConReceive
    \/ \E m \in Messages : OrphanPost(m)
    \/ ConHandleCloseResume
    \/ \E provider \in FreshProviders : SrvOpen(provider)
    \/ SrvOpenResume
    \/ SrvGetHeader
    \/ SrvClose
    \/ SrvCloseResume
    \/ SrvTimer
    \/ SrvCallRemote
    \/ SrvReceive
    \/ WorkerCrash

(***************************************************************************)
(* Specification                                                            *)
(***************************************************************************)
\* The state after construction of one of the programs, in a behaviour that
\* records the calls w.
InitProgram(programs, w) ==
    /\ program \in programs
    /\ watch = w
    /\ last = NoCall
    /\ web_state = "NONE"
    /\ web_server = NewListener(1)
    /\ web_protocol = "running"
    /\ web_close = [protocol |-> 0, server |-> 0, resolved |-> 0]
    /\ web_promise = "none"
    /\ web_socket = NoSocket
    /\ web_upgrades = 0
    /\ WorkerInit

InitWatching(w) == InitProgram({"web", "worker"}, w)

Init == InitWatching({"close"})

Next == WebNext \/ WorkerNext

Spec == Init /\ [][Next]_vars

(***************************************************************************)
(* Lifecycle order                                                          *)
(***************************************************************************)
\* One step from state s to state t keeps the order NONE < OPENING
\* (CONNECTING) < OPEN < CLOSING < CLOSED, or starts a new session from
\* CLOSED.
Monotone(s, t) ==
    \/ Rank(s) <= Rank(t)
    \/ s = "CLOSED" /\ t \in {"OPENING", "CONNECTING"}

\* C1: no step moves the state of the WebServer, of the WorkerConnector or
\* of a WorkerServer to an earlier state of the order NONE < OPENING
\* (CONNECTING) < OPEN < CLOSING < CLOSED, except the re-open or re-connect
\* from CLOSED.  (A WorkerServer is compared with itself only: spawning a
\* worker constructs another one.)
C1_StateMonotone ==
    [][/\ Monotone(web_state, web_state')
       /\ Monotone(con_state, con_state')
       /\ con_worker' = con_worker => Monotone(srv_state, srv_state')]_vars

(***************************************************************************)
(* Shutdown                                                                 *)
(***************************************************************************)
\* C2: in every reachable state, a WorkerConnector or a WorkerServer whose
\* state is CLOSED has an empty pending-call table.
C2_ClosedHasNoPending ==
    /\ con_state = "CLOSED" => con_pending = {}
    /\ srv_state = "CLOSED" => srv_pending = {}

\* The step is a close() call on the object who, made in a state other than
\* OPEN.
CloseOutsideOpen(who, s) ==
    /\ last'.op = "close"
    /\ last'.who = who
    /\ s # "OPEN"

\* C3: close() on a WebServer, WorkerServer or WorkerConnector whose state is
\* not OPEN fails with an error and changes nothing: the state, the pending
\* calls and the destructor's mark stay as they are, no sentinel is posted
\* and no transport is closed.
C3_CloseOutsideOpenFails ==
    [][/\ CloseOutsideOpen("web", web_state) =>
            /\ last'.result = "DomainError"
            /\ UNCHANGED web_vars
       /\ CloseOutsideOpen("server", srv_state) =>
            /\ last'.result \notin {"none", "pending"}
            /\ UNCHANGED <<srv_vars, net_vars>>
       /\ CloseOutsideOpen("connector", con_state) =>
            /\ last'.result \notin {"none", "pending"}
            /\ UNCHANGED <<con_vars, net_vars>>]_vars

\* C3 witness: close() has just been refused on a WebServer that is closing.
C3_Witness ==
    /\ last = [who |-> "web", op |-> "close", result |-> "DomainError"]
    /\ web_state = "CLOSING"

(***************************************************************************)
(* Fair scheduling: a message in flight is delivered, a suspended method    *)
(* resumes, a timer fires, a close completes.  API calls, transport errors  *)
(* and the worker's crash happen or not.                                    *)
(***************************************************************************)
Scheduling ==
    /\ WF_vars(WebProtocolClosed)
    /\ WF_vars(WebServerClosed)
    /\ WF_vars(WebCloseResume)
    /\ WF_vars(ConReceive)
    /\ WF_vars(SrvReceive)
    /\ WF_vars(SrvOpenResume)
    /\ WF_vars(SrvCloseResume)
    /\ WF_vars(SrvTimer)
    /\ WF_vars(ConHandleCloseResume)

FairSpec == Init /\ [][Next]_vars /\ Scheduling

\* The same program in a behaviour that records open(), connect() and
\* compile() instead of close().
SpecOpen == InitWatching({"open", "connect", "compiled"}) /\ [][Next]_vars

\* The WebServer alone, in a behaviour that records open().
InitWeb == InitProgram({"web"}, {"open"})

SpecWeb == InitWeb /\ [][WebNext]_vars

\* The worker pair alone, with the calls of getHeader() and open() shown.
InitHeader == InitProgram({"worker"}, {"getHeader", "open"})

SpecHeader == InitHeader /\ [][WorkerNext]_vars

\* The WebServer alone, with the end of every acceptance handler shown.
InitSocket == InitProgram({"web"}, {"handler"})

SpecSocket == InitSocket /\ [][WebNext]_vars

\* The worker pair alone, with the handling of every received message shown.
InitMessages ==
    InitProgram({"worker"},
                {"message", "control", "handshake", "replyData", "dropped"})

SpecMessages == InitMessages /\ [][WorkerNext]_vars

\* WorkerConnector.close() has just been accepted, with the WorkerServer OPEN
\* in a running worker.
CloseRequested ==
    /\ last = [who |-> "connector", op |-> "close", result |-> "pending"]
    /\ srv_state = "OPEN"
    /\ Alive

\* Both sides are CLOSED.
BothClosed ==
    /\ con_state = "CLOSED"
    /\ srv_state = "CLOSED"

\* C5: when WorkerConnector.close() is called with the connector and its
\* WorkerServer both OPEN then, under fair delivery and scheduling and unless
\* the worker crashes, eventually both sides are CLOSED, and eventually the
\* promise of close() has resolved.
C5_CloseHandshakeCompletes ==
    /\ CloseRequested ~> (BothClosed \/ srv_alive = "crashed")
    /\ CloseRequested ~> (con_joined \/ srv_alive = "crashed")

(***************************************************************************)
(* The worker's open handshake                                              *)
(***************************************************************************)
\* C6: while the handshake of a running WorkerServer waits for its message,
\* and while an open() call waits to post OPEN, the state is OPENING; and
\* the state is OPEN only when the handshake has received its message and
\* decoded it.
C6_HandshakeOrdering ==
    /\ Alive /\ srv_header.status = "waiting" => srv_state = "OPENING"
    /\ Alive /\ srv_opens > 0 => srv_state = "OPENING"
    /\ srv_state = "OPEN" => srv_header.status = "done"

(***************************************************************************)
(* Pending calls and failures                                               *)
(***************************************************************************)
\* C7: a WorkerConnector or WorkerServer that close() has moved to CLOSING
\* has no pending call: destructor() failed them all in that transition, so
\* none is left for a Return to complete.
C7_ClosingHasNoPending ==
    /\ con_state = "CLOSING" => con_pending = {}
    /\ srv_state = "CLOSING" => srv_pending = {}

\* C8: an OPEN WebServer never goes to NONE, and an OPEN WorkerConnector
\* whose worker has crashed eventually is CLOSED with no pending call.
C8_TransportFailureCloses ==
    /\ [][web_state = "OPEN" => web_state' # "NONE"]_vars
    /\ (srv_alive = "crashed" /\ con_state = "OPEN")
           ~> (con_state = "CLOSED" /\ con_pending = {})

\* The step is a connect() or compile() of the WorkerConnector that failed
\* in _Connect.
ConnectFailed ==
    /\ last'.who = "connector"
    /\ last'.op \in {"connect", "compiled"}
    /\ last'.result = "rejected"

\* C9: a spawn that throws inside _Connect leaves the WorkerConnector CLOSED
\* with an empty pending-call table.
C9_ConnectFailureCloses ==
    [][ConnectFailed => con_state' = "CLOSED" /\ con_pending' = {}]_vars

(***************************************************************************)
(* WebServer.open()                                                         *)
(***************************************************************************)
\* The step is an open() call on the WebServer.
WebOpenCalled ==
    /\ last'.who = "web"
    /\ last'.op = "open"

\* C10: open() on a CLOSED WebServer is accepted, replaces the listener by a
\* fresh one and takes the state to OPENING; the fresh listener's
\* "listening" takes it to OPEN; open() on an OPENING, OPEN or CLOSING
\* WebServer fails with an error and leaves the state and the listener as
\* they are.
C10_WebReopen ==
    [][/\ WebOpenCalled /\ web_state = "CLOSED" =>
            /\ last'.result = "pending"
            /\ web_state' = "OPENING"
            /\ web_server'.gen = web_server.gen + 1
            /\ web_server'.status = "binding"
       /\ web_server.status = "binding" /\ web_server'.status = "listening" =>
            web_state' = "OPEN"
       /\ WebOpenCalled /\ web_state \in {"OPENING", "OPEN", "CLOSING"} =>
            /\ last'.result \in {"DomainError", "RuntimeError"}
            /\ UNCHANGED web_vars]_vars

\* C10 witness: the WebServer is OPEN again on its second listener.
C10_Witness ==
    /\ web_state = "OPEN"
    /\ web_server.gen = 2
    /\ web_server.status = "listening"

\* C11: a socket upgraded while the WebServer was not OPEN (CLOSING, or any
\* other state) never gets an Acceptor and the acceptance handler is never
\* invoked for it.
C11_UpgradeOnlyWhileOpen ==
    (web_socket.acceptors > 0 \/ web_socket.handled > 0)
        => web_socket.open

\* The step is an open() call on the WorkerServer.
SrvOpenCalled ==
    /\ last'.op = "open"
    /\ last'.who = "server"

\* C12: WorkerServer.open() called in a state other than NONE fails with an
\* error, leaves the state, the provider and the message handler as they
\* are and posts no sentinel, in a browser worker as in a node worker.
C12_OpenOutsideNoneFails ==
    [][(SrvOpenCalled /\ srv_state # "NONE") =>
            /\ last'.result \notin {"none", "pending"}
            /\ UNCHANGED <<srv_state, srv_provider, srv_onmessage, s2c>>]_vars

\* C13: the provider of a WorkerServer is written only by an open() that
\* takes the server to OPENING, never on a server that is OPEN, CLOSING or
\* CLOSED: while the server is OPEN its provider stays the same.  (A step
\* that starts another worker shows the provider of another WorkerServer.)
C13_ProviderFixedWhileOpen ==
    [][(con_worker' = con_worker /\ srv_provider' # srv_provider) =>
            /\ srv_state' = "OPENING"
            /\ srv_state \notin {"OPEN", "CLOSING", "CLOSED"}]_vars

\* The step leaves the socket with at most one Acceptor and one call of the
\* handler, none of them before the first frame, and makes none on a later
\* frame.
OneAcceptorStep ==
    /\ web_socket'.acceptors <= 1
    /\ web_socket'.handled <= 1
    /\ web_socket'.frames = 0 =>
            web_socket'.acceptors = 0 /\ web_socket'.handled = 0
    /\ (web_upgrades' = web_upgrades /\ web_socket.frames > 0) =>
            /\ web_socket'.acceptors = web_socket.acceptors
            /\ web_socket'.handled = web_socket.handled

\* C14: for an upgraded socket the server takes one frame, the first, as the
\* header envelope: at most one Acceptor is created and the acceptance
\* handler is invoked at most once, neither before the first frame has
\* arrived, and a later frame of the socket creates no Acceptor and does not
\* invoke the handler.
C14_OneAcceptorPerSocket == [][OneAcceptorStep]_vars

InvokeKinds == {"call", "return"}

\* The step is the handling of a received message of the given kinds by
\* one of the given handlers of who.
Handled(who, handlers, kinds) ==
    /\ last'.who = who
    /\ last'.op \in handlers
    /\ last'.result \in kinds

\* C15: on the worker channel a received state sentinel is handled as
\* control and never decoded as data, and a received Invoke frame is given
\* to replyData() and changes no state, by the message handlers of the
\* WorkerServer and of the WorkerConnector alike.
C15_SentinelsAndFramesApart ==
    [][/\ ~Handled("server", {"handshake", "replyData"}, State)
       /\ ~Handled("server", {"handshake"}, InvokeKinds)
       /\ Handled("server", {"replyData"}, InvokeKinds) =>
            UNCHANGED <<srv_state, srv_header>>
       /\ ~Handled("connector", {"replyData"}, State)
       /\ ~Handled("connector", {"control", "handshake"}, InvokeKinds)
       /\ Handled("connector", {"replyData"}, InvokeKinds) =>
            UNCHANGED con_state]_vars

\* The step is a close() call on the WorkerServer, which starts with
\* inspectReady().
SrvCloseCalled ==
    /\ last'.op = "close"
    /\ last'.who = "server"

\* C16: WorkerServer.inspectReady() returns null in OPEN and only there; in
\* NONE, OPENING, CLOSING and CLOSED it returns an error, a different one in
\* each of the four; and it leaves the state as it is: a close() it refuses
\* ends with that error and the state unchanged.
C16_ReadyGate ==
    /\ \A s \in State : SrvInspectReady(s) = "none" <=> s = "OPEN"
    /\ \A s, t \in State : SrvInspectReady(s) = SrvInspectReady(t) => s = t
    /\ [][SrvCloseCalled =>
            /\ last'.result = "pending" <=> srv_state = "OPEN"
            /\ srv_state # "OPEN" =>
                /\ last'.result = SrvInspectReady(srv_state)
                /\ \A s \in State \ {srv_state} :
                        last'.result # SrvInspectReady(s)
                /\ UNCHANGED srv_state]_vars

\* C16 witness: inspectReady() has refused a close() on a server that is
\* closing, with the error of CLOSING.
C16_Witness ==
    /\ last = [who |-> "server", op |-> "close",
               result |-> "RuntimeError:on closing"]
    /\ srv_state = "CLOSING"

\* The step stays with the worker the connector spawned last.
SameWorker == con_worker' = con_worker

\* The step runs destructor() on the WorkerServer, in close().
SrvDestructorCalled == SameWorker /\ srv_closes' > srv_closes

\* The step runs destructor() on the WorkerConnector, in _Handle_close().
ConDestructorCalled == con_handling' > con_handling

\* C17: destructor() runs exactly once per session on the WorkerServer and
\* on the WorkerConnector, however a local close() and the CLOSING sentinels
\* of the peer interleave: it is not run again in a session it has run in,
\* a side is CLOSED only when it has run in that session, and the worker's
\* channel is torn down only after it.
C17_DestructorOncePerSession ==
    [][/\ SrvDestructorCalled => srv_destructed # srv_session
       /\ ConDestructorCalled => con_destructed # con_worker
       /\ (SameWorker /\ srv_state' = "CLOSED") =>
            srv_destructed' = srv_session'
       /\ con_state' = "CLOSED" => con_destructed' = con_worker'
       /\ (SameWorker /\ Alive /\ srv_alive' = "closed") =>
            srv_destructed = srv_session]_vars

\* C18: a server is CLOSED only when its transport has been torn down: the
\* WebServer when the WebSocket protocol server and the HTTP listener have
\* both finished closing, the WorkerServer when its timer has posted CLOSING
\* and closed the channel; no teardown is still to come in CLOSED.
C18_ClosedAfterTeardown ==
    /\ web_state = "CLOSED" =>
            /\ web_protocol = "closed"
            /\ web_server.status = "closed"
            /\ web_close.protocol = 0 /\ web_close.server = 0
    /\ srv_state = "CLOSED" =>
            /\ srv_timers = 0
            /\ srv_alive = "closed"

\* The step is the connector's handling of an OPEN sentinel.
OpenReceived == Handled("connector", {"control"}, {"OPEN"})

\* C19: a connector that is CONNECTING has its connect promise pending; its
\* state becomes OPEN, and the promise resolves, in the step that receives
\* the OPEN sentinel and in no other; and an OPEN sentinel received in a
\* state other than CONNECTING leaves the state as it is.
C19_OpenOnSentinelOnly ==
    [][/\ con_state' = "CONNECTING" =>
            con_promise'[Len(con_promise')] = "pending"
       /\ (con_state # "OPEN" /\ con_state' = "OPEN") => OpenReceived
       /\ (OpenReceived /\ con_state = "CONNECTING") =>
            /\ con_state' = "OPEN"
            /\ con_promise'[con_connector] = "resolved"
       /\ (OpenReceived /\ con_state # "CONNECTING") =>
            UNCHANGED con_state]_vars

\* The socket's first frame has arrived and is the given kind of frame.
FirstFrameWas(socket, kinds) == socket.first \in kinds

\* C20: in the upgrade handler of the WebServer the socket is closed when
\* its first frame is not a text frame, when the frame is no JSON header
\* envelope, and when the acceptance handler throws; and a socket whose
\* first frame is not a text frame gets no Acceptor and no call of the
\* acceptance handler.
C20_BadFirstFrameRejected ==
    [][/\ FirstFrameWas(web_socket', {f \in FirstFrames : ~IsText(f)}) =>
            /\ web_socket'.closed
            /\ web_socket'.acceptors = 0
            /\ web_socket'.handled = 0
       /\ FirstFrameWas(web_socket', {f \in FirstFrames : ~Parses(f)}) =>
            web_socket'.closed
       /\ (last'.op = "handler" /\ last'.result = "threw") =>
            web_socket'.closed]_vars

\* The connect promises that are neither resolved nor rejected.
Outstanding(promises) == {i \in DOMAIN promises : promises[i] = "pending"}

\* A connect() or compile() of the connector is in progress.
Connecting == con_state = "CONNECTING" \/ con_compiling > 0

\* C21: one connection attempt at a time per WorkerConnector: a connect()
\* made while a connect() or a compile() is in progress fails with an
\* error; a worker is spawned only when no earlier worker of the connector
\* runs; and at most one connect promise is outstanding.
C21_OneConnectionAttempt ==
    [][/\ (last'.who = "connector" /\ last'.op = "connect" /\ Connecting) =>
            last'.result \notin {"pending", "rejected"}
       /\ con_worker' > con_worker => ~Alive
       /\ Cardinality(Outstanding(con_promise')) <= 1]_vars

\* C22: whatever open() calls were made, a failed one followed by a retry
\* included, the listener of the WebServer has one "upgrade" handler once
\* an open() was accepted and never more than one, and no upgraded socket
\* has two Acceptors or two calls of the acceptance handler.
C22_OneUpgradeHandler ==
    /\ web_server.upgrade <= 1
    /\ web_state \in {"OPENING", "OPEN"} => web_server.upgrade = 1
    /\ web_socket.acceptors <= 1
    /\ web_socket.handled <= 1

\* C23: a WebServer that is OPEN stays OPEN when its listener emits "error":
\* the state leaves OPEN only in a close() call, which takes it to CLOSING.
C23_OpenLeftByCloseOnly ==
    [][(web_state = "OPEN" /\ web_state' # "OPEN") =>
            /\ last' = [who |-> "web", op |-> "close", result |-> "pending"]
            /\ web_state' = "CLOSING"]_vars

\* C24: the WorkerServer gives a received Invoke frame to replyData() only
\* while its state is OPEN, not in OPENING, in CLOSING or in CLOSED.
C24_ReplyDataOnlyWhileOpen ==
    [][Handled("server", {"replyData"}, InvokeKinds) =>
            srv_state = "OPEN"]_vars

\* The step posts the OPENING sentinel to the parent.
OpeningPosted ==
    /\ Len(s2c') = Len(s2c) + 1
    /\ s2c'[Len(s2c')] = Sentinel("OPENING")

\* C25: however many getHeader() and open() calls a WorkerServer gets, in
\* whatever order, it posts OPENING once and performs the handshake once:
\* OPENING is posted only by the first of those calls, a started handshake
\* is never started again, and the header it delivered is what every later
\* call gets.
C25_HeaderOnce ==
    [][SameWorker =>
            /\ OpeningPosted => srv_header.status = "none"
            /\ srv_header.status # "none" => srv_header'.status # "none"
            /\ srv_header.status = "waiting" => srv_onmessage = "handshake"
            /\ srv_header.status = "done" => srv_header' = srv_header]_vars

\* C25 witness: getHeader() is called on a WorkerServer that is OPEN after
\* its second open(), with the header of the one handshake delivered.
C25_Witness ==
    /\ last = [who |-> "server", op |-> "getHeader", result |-> "pending"]
    /\ srv_header = [status |-> "done", value |-> "H"]
    /\ srv_session = 2
    /\ srv_state = "OPEN"

====
